---- MODULE Spec2Model ----
(***************************************************************************)
(* The ads repository of bazaars (src/src/repos/ad_repo.rs) over its       *)
(* PostgreSQL store: the ads relation, the pooled connections with the     *)
(* cursors (portals) each session holds, and the repository calls          *)
(* new_cursor, fetch_from_cursor, get_by_id, get_page, create, update and  *)
(* delete.  Text is a sequence of one-character strings, an Option is the  *)
(* empty set or a singleton.  The text alphabet holds no backslash (the    *)
(* LIKE escape character).                                                 *)
(***************************************************************************)
EXTENDS Integers, Sequences, FiniteSets, TLC

VARIABLES
    ads,         \* the ads relation: its rows in scan order (no ORDER BY anywhere)
    ads_id_seq,  \* the sequence behind ads.id: the next id the store hands out
    sessions,    \* per pooled connection: cursor name -> portal, for the cursors it holds
    ret,         \* the last completed repository call: its arguments and its result
    hist,        \* history: <<connection, name>> -> what was declared and delivered
    returned,    \* history: the names successful new_cursor calls returned
    made,        \* history: id -> how many creates returned it, and what the last one
                 \* stored while no update or delete of the id followed
    resp,        \* the answer to the HTTP request just served, if the last step was one
    image_store, \* the image directory: file path -> file contents
    idle,        \* the pool: the connections not lent out
    inflight,    \* per caller: the repository call it is in and the connection it holds
    scan         \* history: the pages of the paged listing under way

repo_vars == <<ads, ads_id_seq, sessions, ret, hist, returned, made>>

vars == <<ads, ads_id_seq, sessions, ret, hist, returned, made,
          resp, image_store, idle, inflight, scan>>

----------------------------------------------------------------------------
(* Bounds of the model. *)

MaxRows == 2
PoolSize == 2
MaxQueryRows == 2
MaxCursors == 2
MaxTasks == 3
MaxPosts == 1

(* fetch_from_cursor's count is a u8. *)
MaxCount == 255

(* The ids the sequence hands out in the model. *)
MaxId == MaxRows + 1

(* The instants chrono::Utc::now() returns. *)
Times == {1, 2}

Conns == 1..PoolSize

(* The callers that can be inside a repository call at one time. *)
Tasks == 1..MaxTasks
CursorNames == {"c_a", "c_b"}

----------------------------------------------------------------------------
(* Option, text, ILIKE. *)

None == {}
Some(v) == {v}
Unwrap(o) == CHOOSE v \in o : TRUE
Opt(S) == {None} \cup {Some(v) : v \in S}

Min(a, b) == IF a <= b THEN a ELSE b

Lower(ch) ==
    CASE ch = "A" -> "a"
      [] ch = "B" -> "b"
      [] ch = "D" -> "d"
      [] OTHER -> ch

LowerText(s) == [i \in 1..Len(s) |-> Lower(s[i])]

(* PostgreSQL's s ILIKE pat: % matches any run of characters, _ any one
   character, every other character itself without regard to case. *)
RECURSIVE ILike(_, _)
ILike(s, pat) ==
    IF pat = <<>> THEN s = <<>>
    ELSE IF Head(pat) = "%"
        THEN ILike(s, Tail(pat)) \/ (s # <<>> /\ ILike(Tail(s), pat))
    ELSE IF s = <<>> THEN FALSE
    ELSE IF Head(pat) = "_" THEN ILike(Tail(s), Tail(pat))
    ELSE Lower(Head(s)) = Lower(Head(pat)) /\ ILike(Tail(s), Tail(pat))

(* format!("%{}%", term) *)
WrapPattern(term) == <<"%">> \o term \o <<"%">>

(* term occurs in s as a literal substring, compared without regard to case *)
Contains(s, term) ==
    \E i \in 1..(Len(s) + 1) :
        /\ i + Len(term) - 1 <= Len(s)
        /\ SubSeq(LowerText(s), i, i + Len(term) - 1) = LowerText(term)

----------------------------------------------------------------------------
(* AdFilter and the two renderings of it. *)

AdFilter(t, d, plt, pgt, ult, ugt) ==
    [title_contains |-> t, description_contains |-> d, price_lt |-> plt,
     price_gt |-> pgt, updated_at_lt |-> ult, updated_at_gt |-> ugt]

NoFilter == AdFilter(None, None, None, None, None, None)

TextBind(v) == [type |-> "Text", text |-> v, num |-> 0]
NumericBind(v) == [type |-> "Numeric", text |-> <<>>, num |-> v]
TimestampBind(v) == [type |-> "Timestamp", text |-> <<>>, num |-> v]

Clause(column, op, bind) == [column |-> column, op |-> op, bind |-> bind]

AppendIf(q, opt, clause) == IF opt # None THEN Append(q, clause) ELSE q

(* The boxed query new_cursor and get_page both build: one clause per present
   field, each holding its own bound value. *)
BoxedQuery(filter) ==
    LET q1 == AppendIf(<<>>, filter.title_contains,
                  Clause("title", "ILIKE",
                         TextBind(WrapPattern(Unwrap(filter.title_contains)))))
        q2 == AppendIf(q1, filter.description_contains,
                  Clause("description", "ILIKE",
                         TextBind(WrapPattern(Unwrap(filter.description_contains)))))
        q3 == AppendIf(q2, filter.price_lt,
                  Clause("price", "<", NumericBind(Unwrap(filter.price_lt))))
        q4 == AppendIf(q3, filter.price_gt,
                  Clause("price", ">", NumericBind(Unwrap(filter.price_gt))))
        q5 == AppendIf(q4, filter.updated_at_lt,
                  Clause("updated_at", "<", TimestampBind(Unwrap(filter.updated_at_lt))))
        q6 == AppendIf(q5, filter.updated_at_gt,
                  Clause("updated_at", ">", TimestampBind(Unwrap(filter.updated_at_gt))))
    IN  q6

(* debug_query(&query).to_string(): the SQL text, the k-th clause comparing
   with the placeholder $k; the values appear only in a trailing comment. *)
DebugQuerySql(query) ==
    [k \in 1..Len(query) |->
        [column |-> query[k].column, op |-> query[k].op, param |-> k]]

(* The two price bounds bound in the other order. *)
CursorBindsSwapped(filter) ==
    LET b1 == AppendIf(<<>>, filter.title_contains,
                  TextBind(WrapPattern(Unwrap(filter.title_contains))))
        b2 == AppendIf(b1, filter.description_contains,
                  TextBind(WrapPattern(Unwrap(filter.description_contains))))
        b3 == AppendIf(b2, filter.price_gt, NumericBind(Unwrap(filter.price_gt)))
        b4 == AppendIf(b3, filter.price_lt, NumericBind(Unwrap(filter.price_lt)))
        b5 == AppendIf(b4, filter.updated_at_lt,
                  TimestampBind(Unwrap(filter.updated_at_lt)))
        b6 == AppendIf(b5, filter.updated_at_gt,
                  TimestampBind(Unwrap(filter.updated_at_gt)))
    IN  b6

(* The values new_cursor binds to the declaration, in the order it binds them. *)
CursorBinds(filter) ==
    LET b1 == AppendIf(<<>>, filter.title_contains,
                  TextBind(WrapPattern(Unwrap(filter.title_contains))))
        b2 == AppendIf(b1, filter.description_contains,
                  TextBind(WrapPattern(Unwrap(filter.description_contains))))
        b3 == AppendIf(b2, filter.price_lt, NumericBind(Unwrap(filter.price_lt)))
        b4 == AppendIf(b3, filter.price_gt, NumericBind(Unwrap(filter.price_gt)))
        b5 == AppendIf(b4, filter.updated_at_lt,
                  TimestampBind(Unwrap(filter.updated_at_lt)))
        b6 == AppendIf(b5, filter.updated_at_gt,
                  TimestampBind(Unwrap(filter.updated_at_gt)))
    IN  b6

ColumnType(column) ==
    CASE column \in {"title", "description"} -> "Text"
      [] column = "price" -> "Numeric"
      [] column = "updated_at" -> "Timestamp"

(* One WHERE condition on one row. *)
EvalCondition(row, column, op, bind) ==
    CASE column = "title" -> ILike(row.title, bind.text)
      [] column = "description" -> ILike(row.description, bind.text)
      [] column = "price" /\ op = "<" -> row.price < bind.num
      [] column = "price" /\ op = ">" -> row.price > bind.num
      [] column = "updated_at" /\ op = "<" -> row.updated_at < bind.num
      [] column = "updated_at" /\ op = ">" -> row.updated_at > bind.num

(* query.load(conn) of a boxed query: the rows meeting every clause, in scan
   order. *)
LoadBoxed(query, table) ==
    LET Keep(row) == \A k \in 1..Len(query) :
            EvalCondition(row, query[k].column, query[k].op, query[k].bind)
    IN  SelectSeq(table, Keep)

(* The store running a statement text with placeholders against bound values:
   every placeholder needs a value of its column's type. *)
BindsFit(sql, binds) ==
    /\ Len(binds) = Len(sql)
    /\ \A k \in 1..Len(sql) : binds[sql[k].param].type = ColumnType(sql[k].column)

RunSelect(sql, binds, table) ==
    LET Keep(row) == \A k \in 1..Len(sql) :
            EvalCondition(row, sql[k].column, sql[k].op, binds[sql[k].param])
    IN  SelectSeq(table, Keep)

----------------------------------------------------------------------------
(* Rows of ads (the struct Ad) and the values create stores. *)

Ad(id, title, description, price, status, user_email, user_phone, created_at, updated_at, top_ad, images) ==
    [id |-> id, title |-> title, description |-> description, price |-> price,
     status |-> status, user_email |-> user_email, user_phone |-> user_phone,
     created_at |-> created_at, updated_at |-> updated_at, top_ad |-> top_ad,
     images |-> images]

AdContent(title, description, price, user_email, user_phone, top_ad) ==
    [title |-> title, description |-> description, price |-> price,
     user_email |-> user_email, user_phone |-> user_phone, top_ad |-> top_ad]

(* An f64: a finite value or not (NaN, an infinity). *)
Finite(v) == [finite |-> TRUE, val |-> v]
NaN == [finite |-> FALSE, val |-> 0]

(* BigDecimal::from_f64: None for a value that is not finite. *)
from_f64(x) == IF x.finite THEN Some(x.val) ELSE None

(* The array built back to front. *)
to_value_reversed(image_ids) ==
    [json |-> "array",
     elems |-> [i \in 1..Len(image_ids) |->
                   [json |-> "string", str |-> image_ids[Len(image_ids) + 1 - i]]]]

(* serde_json::to_value of a Vec<String>: a JSON array of JSON strings, in the
   list's order. *)
to_value(image_ids) ==
    [json |-> "array",
     elems |-> [i \in 1..Len(image_ids) |-> [json |-> "string", str |-> image_ids[i]]]]

(* The list of strings a JSON array of strings deserializes to. *)
from_value(v) == [i \in 1..Len(v.elems) |-> v.elems[i].str]

Ids(table) == {table[i].id : i \in 1..Len(table)}

RowOf(table, id) == table[CHOOSE i \in 1..Len(table) : table[i].id = id]

InsertAt(table, pos, row) ==
    SubSeq(table, 1, pos - 1) \o <<row>> \o SubSeq(table, pos, Len(table))

Without(table, id) ==
    LET Keep(row) == row.id # id IN SelectSeq(table, Keep)

(* A delete that lost its find(id): every row goes. *)
DeleteNoFind(table, id) == <<>>

(* The table after diesel::delete(ads::table.find(id)). *)
DeleteFind(table, id) == Without(table, id)

(* nextval of the sequence behind ads.id. *)
NextVal(seq, table) == seq

----------------------------------------------------------------------------
(* Cursors.  A portal is the result set of a WITH HOLD cursor, materialized
   when the declaring statement commits, and a position: 0 before the first
   row, i on row i, Len(rows) + 1 after the last. *)

EmptyMap == [x \in {} |-> 0]

CursorCount == Cardinality(DOMAIN hist)

(* DECLARE name CURSOR WITH HOLD FOR sql, run with binds on one session. *)
DeclareOk(session, name, sql, binds) ==
    name \notin DOMAIN session /\ BindsFit(sql, binds)

(* The portal of a held cursor: the statement with its binds, the result
   stored when the declaring statement commits, and the position. *)
DeclarePortal(sql, binds, table) ==
    [sql |-> sql, binds |-> binds,
     rows |-> RunSelect(sql, binds, table), pos |-> 0]

(* A cursor that runs its statement against the table as each fetch finds it. *)
LiveRows(portal, table) == RunSelect(portal.sql, portal.binds, table)

(* WITH HOLD: a fetch reads the stored result, whatever the table is by then. *)
HeldRows(portal, table) == portal.rows

(* FETCH FORWARD count FROM the portal: the rows returned and the position
   left.  FORWARD 0 fetches the row the portal is on again, if it is on one. *)
PortalFetch(portal, count) ==
    LET n == Len(portal.rows)
        p == portal.pos
    IN  IF count = 0
        THEN [rows |-> IF 1 <= p /\ p <= n THEN <<portal.rows[p]>> ELSE <<>>,
              pos |-> p]
        ELSE IF p + count <= n
        THEN [rows |-> SubSeq(portal.rows, p + 1, p + count), pos |-> p + count]
        ELSE [rows |-> SubSeq(portal.rows, p + 1, n), pos |-> n + 1]

(* The first argument taken for a page number, as the trait names it. *)
OffsetLimitByPage(rows, offset, per_page) ==
    SubSeq(rows, offset * per_page + 1, Min(Len(rows), offset * per_page + per_page))

(* OFFSET offset LIMIT per_page: the rows after the first offset ones, at most
   per_page of them. *)
OffsetLimit(rows, offset, per_page) ==
    IF offset >= Len(rows) THEN <<>>
    ELSE SubSeq(rows, offset + 1, offset + Min(per_page, Len(rows) - offset))

----------------------------------------------------------------------------
(* Numbers in the HTTP layer: the id path segment parsed as an i32, the id
   written in decimal, and the u32 paging arguments. *)

I32Max == 2147483647
I32Min == -I32Max - 1

Digit == <<"0", "1", "2", "3", "4", "5", "6", "7", "8", "9">>

IsDigit(ch) == \E d \in 1..10 : Digit[d] = ch

DigitValue(ch) == (CHOOSE d \in 1..10 : Digit[d] = ch) - 1

(* checked_mul(10) then checked_add(d), or checked_sub(d) below zero: None on
   a character that is no digit and on leaving the i32 range. *)
RECURSIVE ParseDigits(_, _, _)
ParseDigits(s, acc, positive) ==
    IF s = <<>> THEN Some(acc)
    ELSE IF ~IsDigit(Head(s)) THEN None
    ELSE LET d == DigitValue(Head(s))
         IN  IF positive
             THEN IF acc > I32Max \div 10 \/ acc * 10 > I32Max - d THEN None
                  ELSE ParseDigits(Tail(s), acc * 10 + d, positive)
             ELSE IF acc < -(I32Max \div 10) \/ acc * 10 < I32Min + d THEN None
                  ELSE ParseDigits(Tail(s), acc * 10 - d, positive)

(* A parse that accepts digits only, no sign. *)
parse_digits_only(s) ==
    IF s = <<>> THEN None ELSE ParseDigits(s, 0, TRUE)

(* str::parse::<i32>: an optional sign, then at least one digit. *)
parse(s) ==
    IF s = <<>> \/ s = <<"+">> \/ s = <<"-">> THEN None
    ELSE IF Head(s) = "+" THEN ParseDigits(Tail(s), 0, TRUE)
    ELSE IF Head(s) = "-" THEN ParseDigits(Tail(s), 0, FALSE)
    ELSE ParseDigits(s, 0, TRUE)

RECURSIVE DecimalOf(_)
DecimalOf(n) ==
    IF n < 10 THEN <<Digit[n + 1]>> ELSE DecimalOf(n \div 10) \o <<Digit[(n % 10) + 1]>>

(* i32::to_string, for the ids the sequence hands out (all positive). *)
to_string(n) == IF n < 0 THEN <<"-">> \o DecimalOf(-n) ELSE DecimalOf(n)

(* A u32 as twice a half plus a bit, so that the whole range is at hand. *)
U32(half, bit) == [half |-> half, bit |-> bit]

U32Of(n) == U32(n \div 2, n % 2)

U32Max == U32(I32Max, 1)

(* The value as a row count, for the values a table can reach. *)
AsCount(u) == IF u.half > I32Max \div 2 THEN I32Max ELSE 2 * u.half + u.bit

U32Less(u, v) == u.half < v.half \/ (u.half = v.half /\ u.bit < v.bit)

(* u / v for v >= 1, as a u32. *)
U32Div(u, v) ==
    IF v = U32Of(1) THEN u
    ELSE IF v.half > I32Max \div 2
    THEN IF U32Less(u, v) THEN U32Of(0) ELSE U32Of(1)
    ELSE LET p == 2 * v.half + v.bit
             q == u.half \div p
             r == u.half % p
             t == IF r >= p - r - u.bit THEN 1 ELSE 0
         IN  U32((2 * q + t) \div 2, (2 * q + t) % 2)

(* u + 1: None where it leaves the u32 range. *)
U32Succ(u) ==
    IF u = U32Max THEN None
    ELSE IF u.bit = 0 THEN Some(U32(u.half, 1)) ELSE Some(U32(u.half + 1, 0))

----------------------------------------------------------------------------
(* The values the calls are made with. *)

Contents ==
    {AdContent(<<"A", "b">>, <<"D">>, Finite(2), "e1", "p1", FALSE),
     AdContent(<<"b">>, <<"x">>, NaN, "e2", "p2", TRUE)}

ImageLists == {<<>>, <<"i2", "i1">>}

(* The Ad values update is called with; the id inside need not be the id
   updated. *)
UpdateAds ==
    {Ad(2, <<"b">>, <<"x">>, 3, "sold", "e2", "p2", 1, 3, TRUE, to_value(<<"i1">>))}

IdArgs == 1..MaxId

TitleFilter == AdFilter(Some(<<"a", "B">>), None, None, None, None, None)

SmallFilters == {NoFilter, TitleFilter}

FetchNames == CursorNames \cup {"c_none"}

FetchCounts == {0, 1, MaxCount}

----------------------------------------------------------------------------
(* The repository calls.  Every call borrows one connection of the pool for
   its one statement; which one it gets depends on what the other requests
   hold, and the pool may fail to lend any. *)

(* No request served yet, an empty image directory, every connection in the
   pool, no caller inside a call, no listing under way. *)
NoResponse == [kind |-> "none", handler |-> "none"]

NoScan ==
    [state |-> "none", next |-> 0, seen |-> {}, again |-> {}, alive |-> {},
     stable |-> TRUE, twice |-> {}, never |-> {}]

Around0 ==
    /\ resp = NoResponse
    /\ image_store = EmptyMap
    /\ idle = Conns
    /\ inflight = [task \in Tasks |-> None]
    /\ scan = NoScan

(* A repository call made directly and run to its end: no HTTP response, the
   image directory untouched, the connection back in the pool on return. *)
Repo(A) ==
    /\ A
    /\ resp' = NoResponse
    /\ UNCHANGED <<image_store, idle, inflight, scan>>

Init ==
    /\ Around0
    /\ ads = <<>>
    /\ ads_id_seq = 1
    /\ sessions = [conn \in Conns |-> EmptyMap]
    /\ ret = [op |-> "none", kind |-> "Ok"]
    /\ hist = EmptyMap
    /\ returned = {}
    /\ made = EmptyMap

new_cursor(filter) ==
    LET query == BoxedQuery(filter)
        sql == DebugQuerySql(query)
        binds == CursorBinds(filter)
    IN  /\ \/ /\ ret' = [op |-> "new_cursor", kind |-> "PoolError"]
              /\ UNCHANGED <<sessions, hist, returned>>
           \/ \E conn \in Conns, name \in CursorNames :
                IF DeclareOk(sessions[conn], name, sql, binds)
                THEN LET portal == DeclarePortal(sql, binds, ads)
                     IN  /\ sessions' = [sessions EXCEPT
                                ![conn] = (name :> portal) @@ sessions[conn]]
                         /\ ret' = [op |-> "new_cursor", filter |-> filter,
                                    kind |-> "Ok", name |-> name, conn |-> conn]
                         /\ hist' = (<<conn, name>> :>
                                        [filter |-> filter, rows |-> portal.rows,
                                         delivered |-> <<>>]) @@ hist
                         /\ returned' = returned \cup {name}
                ELSE /\ ret' = [op |-> "new_cursor", filter |-> filter, kind |-> "Err"]
                     /\ UNCHANGED <<sessions, hist, returned>>
        /\ UNCHANGED <<ads, ads_id_seq, made>>

(* A fetch that closes the cursor once its last row is passed. *)
AdvanceOrClose(session, name, pos) ==
    IF pos >= Len(session[name].rows) /\ session[name].rows # <<>>
    THEN [n \in DOMAIN session \ {name} |-> session[n]]
    ELSE [session EXCEPT ![name].pos = pos]

(* FETCH moves the position of the cursor and leaves it declared. *)
Advance(session, name, pos) == [session EXCEPT ![name].pos = pos]

fetch_from_cursor(cursor_name, count) ==
    /\ \/ /\ ret' = [op |-> "fetch_from_cursor", kind |-> "PoolError"]
          /\ UNCHANGED <<sessions, hist>>
       \/ \E conn \in Conns :
            IF cursor_name \in DOMAIN sessions[conn]
            THEN LET portal == sessions[conn][cursor_name]
                     got == PortalFetch([portal EXCEPT !.rows = HeldRows(portal, ads)],
                                        count)
                 IN  /\ sessions' = [sessions EXCEPT
                            ![conn] = Advance(sessions[conn], cursor_name, got.pos)]
                     /\ ret' = [op |-> "fetch_from_cursor", name |-> cursor_name,
                                count |-> count, kind |-> "Ok", rows |-> got.rows,
                                conn |-> conn]
                     /\ hist' = IF count = 0 THEN hist
                                ELSE [hist EXCEPT ![<<conn, cursor_name>>].delivered =
                                          @ \o got.rows]
            ELSE /\ ret' = [op |-> "fetch_from_cursor", name |-> cursor_name,
                            count |-> count, kind |-> "Err"]
                 /\ UNCHANGED <<sessions, hist>>
    /\ UNCHANGED <<ads, ads_id_seq, returned, made>>

get_by_id(id) ==
    /\ \/ ret' = [op |-> "get_by_id", kind |-> "PoolError"]
       \/ ret' = [op |-> "get_by_id", id |-> id, kind |-> "Ok",
                  ad |-> IF id \in Ids(ads) THEN Some(RowOf(ads, id)) ELSE None]
    /\ UNCHANGED <<ads, ads_id_seq, sessions, hist, returned, made>>

get_page(offset, per_page, filter) ==
    LET query == BoxedQuery(filter)
    IN  /\ \/ ret' = [op |-> "get_page", kind |-> "PoolError"]
           \/ ret' = [op |-> "get_page", offset |-> offset, per_page |-> per_page,
                      filter |-> filter, kind |-> "Ok",
                      rows |-> OffsetLimit(LoadBoxed(query, ads), offset, per_page)]
        /\ UNCHANGED <<ads, ads_id_seq, sessions, hist, returned, made>>

create(ad, image_ids) ==
    /\ Len(ads) < MaxRows
    /\ ads_id_seq <= MaxId
    /\ LET price == from_f64(ad.price)
       IN  IF price = None
           THEN \* unwrap() of None: the call panics before any statement runs
                /\ ret' = [op |-> "create", content |-> ad, image_ids |-> image_ids,
                           kind |-> "Panic"]
                /\ UNCHANGED <<ads, ads_id_seq, made>>
           ELSE \E now1 \in Times, now2 \in Times :
                \* two reads of the wall clock, the second no earlier
                /\ now1 <= now2
                /\ \/ /\ ret' = [op |-> "create", kind |-> "PoolError"]
                      /\ UNCHANGED <<ads, ads_id_seq, made>>
                   \/ \E pos \in 1..(Len(ads) + 1) :
                        LET row == Ad(NextVal(ads_id_seq, ads), ad.title, ad.description,
                                      Unwrap(price), "active", ad.user_email,
                                      ad.user_phone, now1, now2, ad.top_ad,
                                      to_value(image_ids))
                        IN  /\ ads' = InsertAt(ads, pos, row)
                            /\ ads_id_seq' = ads_id_seq + 1
                            /\ ret' = [op |-> "create", content |-> ad,
                                       image_ids |-> image_ids, kind |-> "Ok", ad |-> row]
                            /\ made' = (row.id :>
                                    [times |-> IF row.id \in DOMAIN made
                                               THEN made[row.id].times + 1 ELSE 1,
                                     kept |-> Some([content |-> ad,
                                                    image_ids |-> image_ids])]) @@ made
    /\ UNCHANGED <<sessions, hist, returned>>

(* A changeset that assigns the primary key as well. *)
AsChangesetWithKey(row, ad) == ad

(* The changeset of an Ad: every column but the primary key. *)
AsChangeset(row, ad) == [ad EXCEPT !.id = row.id]

Touched(map, id) == IF id \in DOMAIN map THEN [map EXCEPT ![id].kept = None] ELSE map

update(id, ad) ==
    /\ \/ /\ ret' = [op |-> "update", kind |-> "PoolError"]
          /\ UNCHANGED <<ads, made>>
       \/ IF id \in Ids(ads)
          THEN \E pos \in 1..Len(ads) :
                 LET row == AsChangeset(RowOf(ads, id), ad)
                 IN  /\ ads' = InsertAt(Without(ads, id), pos, row)
                     /\ ret' = [op |-> "update", id |-> id, arg |-> ad,
                                kind |-> "Ok", ad |-> row]
                     /\ made' = Touched(made, id)
          ELSE /\ ret' = [op |-> "update", id |-> id, arg |-> ad, kind |-> "Err"]
               /\ UNCHANGED <<ads, made>>
    /\ UNCHANGED <<ads_id_seq, sessions, hist, returned>>

delete(id) ==
    /\ \/ /\ ret' = [op |-> "delete", kind |-> "PoolError"]
          /\ UNCHANGED <<ads, made>>
       \/ /\ ads' = DeleteFind(ads, id)
          /\ ret' = [op |-> "delete", id |-> id, kind |-> "Ok",
                     count |-> Len(ads) - Len(DeleteFind(ads, id))]
          /\ made' = Touched(made, id)
    /\ UNCHANGED <<ads_id_seq, sessions, hist, returned>>

(* The store from its empty state under the writes and the lookup by id. *)
Next ==
    \/ \E id \in IdArgs : Repo(get_by_id(id))
    \/ \E ad \in Contents, image_ids \in ImageLists : Repo(create(ad, image_ids))
    \/ \E id \in IdArgs, ad \in UpdateAds : Repo(update(id, ad))
    \/ \E id \in IdArgs : Repo(delete(id))

Spec == Init /\ [][Next]_vars

----------------------------------------------------------------------------
(* A stored table under the reads.  The table is drawn from the rows below:
   one row every filter value used here lets through, and for each column a
   filter reads, rows that differ from it in that column alone. *)

SampleRows ==
    <<Ad(1, <<"A", "b">>, <<"D">>, 2, "active", "e1", "p1", 1, 2, FALSE, to_value(<<>>)),
      Ad(2, <<"b">>, <<"D">>, 2, "active", "e1", "p1", 1, 2, FALSE, to_value(<<>>)),
      Ad(3, <<"A", "b">>, <<"x">>, 2, "active", "e1", "p1", 1, 2, FALSE, to_value(<<>>)),
      Ad(4, <<"A", "b">>, <<"D">>, 1, "active", "e1", "p1", 1, 2, FALSE, to_value(<<>>)),
      Ad(5, <<"A", "b">>, <<"D">>, 3, "active", "e1", "p1", 1, 2, FALSE, to_value(<<>>)),
      Ad(6, <<"A", "b">>, <<"D">>, 2, "active", "e1", "p1", 1, 1, FALSE, to_value(<<>>)),
      Ad(7, <<"A", "b">>, <<"D">>, 2, "active", "e1", "p1", 1, 3, FALSE, to_value(<<>>))>>

TableOf(ids) ==
    LET Keep(row) == row.id \in ids IN SelectSeq(SampleRows, Keep)

QueryTables ==
    {TableOf(ids) : ids \in {S \in SUBSET (1..Len(SampleRows)) :
                                Cardinality(S) <= MaxQueryRows}}

AllFilters ==
    [title_contains : Opt({<<"a", "B">>, <<"_">>}),
     description_contains : Opt({<<"d">>}),
     price_lt : Opt({3}), price_gt : Opt({1}),
     updated_at_lt : Opt({3}), updated_at_gt : Opt({1})]

(* The 64 combinations of present and absent fields, one value per field. *)
PresenceFilters == {filter \in AllFilters : filter.title_contains # Some(<<"_">>)}

PageFilter == AdFilter(None, None, Some(3), None, None, None)

(* The get_page calls made: every filter with a page that holds the whole
   table, and every offset and page size with two of the filters. *)
PageArgs ==
    {<<0, MaxQueryRows + 1, filter>> : filter \in AllFilters}
        \cup ((0..(MaxQueryRows + 1)) \X (0..(MaxQueryRows + 1)) \X {NoFilter, PageFilter})

InitStored ==
    /\ Around0
    /\ ads \in QueryTables
    /\ ads_id_seq = Len(SampleRows) + 1
    /\ sessions = [conn \in Conns |-> EmptyMap]
    /\ ret = [op |-> "none", kind |-> "Ok"]
    /\ hist = EmptyMap
    /\ returned = {}
    /\ made = [id \in Ids(ads) |-> [times |-> 1, kept |-> None]]

NextPage ==
    \E args \in PageArgs : Repo(get_page(args[1], args[2], args[3]))

SpecPage == InitStored /\ [][NextPage]_vars

(* One cursor declared over a stored table and fetched from. *)
NextDrain ==
    \/ /\ CursorCount = 0
       /\ \E filter \in PresenceFilters : Repo(new_cursor(filter))
    \/ \E name \in CursorNames, count \in {1, MaxCount} : Repo(fetch_from_cursor(name, count))

SpecDrain == InitStored /\ [][NextDrain]_vars

(* Search terms: plain text, and the two characters LIKE reads as wildcards. *)
SearchTerms == {<<"a", "B">>, <<"x">>, <<"_">>, <<"%">>}

TextFilters ==
    {AdFilter(t, d, None, None, None, None) :
        t \in Opt(SearchTerms), d \in Opt(SearchTerms)}

(* A text search over a stored table, as a whole page and as a cursor. *)
NextSearch ==
    \/ \E filter \in TextFilters : Repo(get_page(0, MaxQueryRows + 1, filter))
    \/ /\ CursorCount = 0
       /\ \E filter \in TextFilters : Repo(new_cursor(filter))

SpecSearch == InitStored /\ [][NextSearch]_vars

----------------------------------------------------------------------------
(* Cursors over a table that is written to: the table starts as some of the
   first sample rows, and the sequence behind ads.id past them. *)

InitCursor ==
    /\ Around0
    /\ ads = TableOf(1..MaxRows)
    /\ ads_id_seq = MaxRows + 1
    /\ sessions = [conn \in Conns |-> EmptyMap]
    /\ ret = [op |-> "none", kind |-> "Ok"]
    /\ hist = EmptyMap
    /\ returned = {}
    /\ made = [id \in Ids(ads) |-> [times |-> 1, kept |-> None]]

NextCursor ==
    \/ /\ CursorCount = 0
       /\ \E filter \in SmallFilters : Repo(new_cursor(filter))
    \/ \E name \in FetchNames, count \in FetchCounts : Repo(fetch_from_cursor(name, count))
    \/ \E ad \in Contents : Repo(create(ad, <<>>))
    \/ \E id \in IdArgs, ad \in UpdateAds : Repo(update(id, ad))
    \/ \E id \in IdArgs : Repo(delete(id))

SpecCursor == InitCursor /\ [][NextCursor]_vars

(* Several cursors declared over a stored table that is not written. *)
NextNames ==
    \/ /\ CursorCount < MaxCursors
       /\ Repo(new_cursor(NoFilter))
    \/ \E name \in CursorNames : Repo(fetch_from_cursor(name, 1))

SpecNames == InitCursor /\ [][NextNames]_vars

----------------------------------------------------------------------------
(* The image directory (src/src/repos/image_repo.rs). *)

(* The uuids create_image draws. *)
ImageIds == {"i1", "i2"}

ContentPath(id) == <<id, "">>

MetaPath(id) == <<id, ".meta">>

(* serde_json::to_string of the metadata of an image. *)
ImageMetadataFile(file_name, mime_type) ==
    [json |-> "object", file_name |-> file_name, mime_type |-> mime_type]

(* The ids no file of the directory is named by. *)
FreshIds(store) == {id \in ImageIds : \A path \in DOMAIN store : path[1] # id}

(* tokio::fs::write: the file holds the data, or the write fails with the
   file not created, or created and cut short. *)
Write(store, path, data) ==
    {[ok |-> TRUE, store |-> (path :> [data |-> data, whole |-> TRUE]) @@ store],
     [ok |-> FALSE, store |-> store],
     [ok |-> FALSE, store |-> (path :> [data |-> data, whole |-> FALSE]) @@ store]}

(* create_image under a fresh id: the content file, then the metadata file;
   the first failing write ends the call with an error. *)
create_image(store, file_name, bytes, mime_type) ==
    UNION {
      UNION {
        IF ~first.ok
        THEN {[id |-> None, store |-> first.store]}
        ELSE {[id |-> IF second.ok THEN Some(image_id) ELSE None,
               store |-> second.store] :
                 second \in Write(first.store, MetaPath(image_id),
                                  ImageMetadataFile(file_name, mime_type))}
        : first \in Write(store, ContentPath(image_id), bytes)}
      : image_id \in FreshIds(store)}

----------------------------------------------------------------------------
(* The HTTP handlers (src/src/bin/main.rs). *)

Response(handler, request, status, body) ==
    [kind |-> "response", handler |-> handler, request |-> request,
     status |-> status, body |-> body]

(* The handler panicked: the request gets no response. *)
Aborted(handler, request) ==
    [kind |-> "aborted", handler |-> handler, request |-> request]

NoBody == [type |-> "empty"]

Json(v) == [type |-> "json", value |-> v]

Text(s) == [type |-> "text", value |-> s]

PaginatedReq(per_page, offset, filters) ==
    [per_page |-> per_page, offset |-> offset, filters |-> filters]

PaginatedRes(page, items) == [page |-> page, items |-> items]

(* offset / per_page + 1 in u32: a division by zero panics; a sum past the
   u32 range panics where overflow is checked and wraps to 0 where it is not. *)
PageOf(offset, per_page) ==
    IF per_page = U32Of(0) THEN {None}
    ELSE LET page == U32Succ(U32Div(offset, per_page))
         IN  IF page = None THEN {None, Some(U32Of(0))} ELSE {page}

get_ads(payload) ==
    LET params == IF payload = None
                  THEN PaginatedReq(Some(U32Of(10)), Some(U32Of(0)), None)
                  ELSE Unwrap(payload)
        per_page == IF params.per_page = None THEN U32Of(10) ELSE Unwrap(params.per_page)
        offset == IF params.offset = None THEN U32Of(0) ELSE Unwrap(params.offset)
        filter == IF params.filters = None THEN NoFilter ELSE Unwrap(params.filters)
    IN  /\ get_page(AsCount(offset), AsCount(per_page), filter)
        /\ IF ret'.kind = "Ok"
           THEN \E page \in PageOf(offset, per_page) :
                  resp' = IF page = None THEN Aborted("get_ads", payload)
                          ELSE Response("get_ads", payload, 200,
                                        Json(PaginatedRes(Unwrap(page), ret'.rows)))
           ELSE resp' = Response("get_ads", payload, 500, NoBody)
        /\ UNCHANGED <<image_store, idle, inflight, scan>>

get_ad(id) ==
    LET parsed == parse(id)
    IN  /\ IF parsed = None
           THEN /\ resp' = Response("get_ad", id, 400, NoBody)
                /\ UNCHANGED repo_vars
           ELSE /\ get_by_id(Unwrap(parsed))
                /\ resp' = IF ret'.kind # "Ok" THEN Response("get_ad", id, 500, NoBody)
                           ELSE IF ret'.ad = None THEN Response("get_ad", id, 404, NoBody)
                           ELSE Response("get_ad", id, 200, Json(Unwrap(ret'.ad)))
        /\ UNCHANGED <<image_store, idle, inflight, scan>>

(* One uploaded image part: its metadata, either of which may be absent. *)
ImagePart(file_name, content_type, contents) ==
    [file_name |-> file_name, content_type |-> content_type, contents |-> contents]

AdRequest(content, images) == [content |-> content, images |-> images]

(* A loop that passes over a part without file name or content type. *)
RECURSIVE SaveImagesSkipping(_, _, _)
SaveImagesSkipping(images, store, image_ids) ==
    IF images = <<>> THEN {[kind |-> "saved", store |-> store, image_ids |-> image_ids]}
    ELSE LET image == Head(images)
         IN  IF image.file_name = None \/ image.content_type = None
             THEN SaveImagesSkipping(Tail(images), store, image_ids)
             ELSE UNION {
                    IF made_image.id = None
                    THEN {[kind |-> "error", store |-> made_image.store,
                           image_ids |-> image_ids]}
                    ELSE SaveImagesSkipping(Tail(images), made_image.store,
                                            Append(image_ids, Unwrap(made_image.id)))
                    : made_image \in create_image(store, Unwrap(image.file_name),
                                                  image.contents,
                                                  Unwrap(image.content_type))}

(* The loop over the image parts: unwrap() of an absent file name or content
   type panics, a failed create_image ends the request, else the id is pushed. *)
RECURSIVE SaveImages(_, _, _)
SaveImages(images, store, image_ids) ==
    IF images = <<>> THEN {[kind |-> "saved", store |-> store, image_ids |-> image_ids]}
    ELSE LET image == Head(images)
         IN  IF image.file_name = None \/ image.content_type = None
             THEN {[kind |-> "panic", store |-> store, image_ids |-> image_ids]}
             ELSE UNION {
                    IF made_image.id = None
                    THEN {[kind |-> "error", store |-> made_image.store,
                           image_ids |-> image_ids]}
                    ELSE SaveImages(Tail(images), made_image.store,
                                    Append(image_ids, Unwrap(made_image.id)))
                    : made_image \in create_image(store, Unwrap(image.file_name),
                                                  image.contents,
                                                  Unwrap(image.content_type))}

create_ad(payload) ==
    /\ Len(ads) < MaxRows
    /\ ads_id_seq <= MaxId
    /\ Cardinality(FreshIds(image_store)) >= Len(payload.images)
    /\ \E saved \in SaveImages(payload.images, image_store, <<>>) :
         /\ image_store' = saved.store
         /\ IF saved.kind = "saved"
            THEN /\ create(payload.content, saved.image_ids)
                 /\ resp' = IF ret'.kind = "Ok"
                            THEN Response("create_ad", payload, 200,
                                          Text(to_string(ret'.ad.id)))
                            ELSE IF ret'.kind = "Panic" THEN Aborted("create_ad", payload)
                            ELSE Response("create_ad", payload, 500, NoBody)
            ELSE /\ resp' = IF saved.kind = "panic" THEN Aborted("create_ad", payload)
                            ELSE Response("create_ad", payload, 500, NoBody)
                 /\ UNCHANGED repo_vars
    /\ UNCHANGED <<idle, inflight, scan>>

(* A DELETE handler that deletes the row. *)
delete_ad_deleting(id) ==
    LET parsed == parse(id)
    IN  /\ IF parsed = None
           THEN /\ resp' = Response("delete_ad", id, 400, NoBody)
                /\ UNCHANGED repo_vars
           ELSE /\ delete(Unwrap(parsed))
                /\ resp' = Response("delete_ad", id, 204, NoBody)
        /\ UNCHANGED <<image_store, idle, inflight, scan>>

(* The two stubs. *)
update_ad(id, payload) ==
    /\ resp' = Response("update_ad", id, 200, NoBody)
    /\ UNCHANGED <<repo_vars, image_store, idle, inflight, scan>>

delete_ad(id) ==
    /\ resp' = Response("delete_ad", id, 204, NoBody)
    /\ UNCHANGED <<repo_vars, image_store, idle, inflight, scan>>

(* The requests made. *)
Payloads ==
    {None, Some(PaginatedReq(None, None, Some(TitleFilter)))}
      \cup {Some(PaginatedReq(per_page, offset, None)) :
               per_page \in Opt({U32Of(0), U32Of(1), U32Max}),
               offset \in Opt({U32Of(1), U32Max})}

Segments ==
    {<<"1">>, <<"0", "1">>, <<"-", "1">>, <<"a">>,
     <<"2", "1", "4", "7", "4", "8", "3", "6", "4", "7">>,
     <<"2", "1", "4", "7", "4", "8", "3", "6", "4", "8">>}

GoodPart == ImagePart(Some("f.png"), Some("image/png"), <<1, 2>>)

PartLists ==
    {<<>>, <<GoodPart>>, <<GoodPart, GoodPart>>,
     <<ImagePart(None, Some("image/png"), <<1>>)>>,
     <<GoodPart, ImagePart(Some("g.png"), None, <<1>>)>>}

AdRequests ==
    {AdRequest(AdContent(<<"A", "b">>, <<"D">>, Finite(2), "e1", "p1", FALSE), images) :
        images \in PartLists}
      \cup {AdRequest(AdContent(<<"b">>, <<"x">>, NaN, "e2", "p2", TRUE), <<GoodPart>>)}

StubRequest == AdRequest(AdContent(<<"b">>, <<"x">>, Finite(2), "e2", "p2", TRUE), <<>>)

(* The service from an empty table and an empty image directory. *)
NextHttp ==
    \/ \E payload \in Payloads : get_ads(payload)
    \/ \E id \in Segments : get_ad(id)
    \/ /\ Len(ads) < MaxPosts
       /\ \E payload \in AdRequests : create_ad(payload)
    \/ \E id \in {<<"1">>, <<"a">>} : update_ad(id, StubRequest)
    \/ \E id \in {<<"1">>, <<"a">>} : delete_ad(id)

SpecHttp == Init /\ [][NextHttp]_vars

(* The routes and the repository calls side by side, over a table that holds
   the one row of an earlier POST /ads with one image, with cursors declared
   on it. *)
ServiceRequest ==
    AdRequest(AdContent(<<"A", "b">>, <<"D">>, Finite(2), "e1", "p1", FALSE), <<>>)

(* The image directory after create_image stored one image as i1. *)
StoredImage ==
    (CHOOSE made_image \in create_image(EmptyMap, Unwrap(GoodPart.file_name),
                                        GoodPart.contents,
                                        Unwrap(GoodPart.content_type)) :
        made_image.id = Some("i1")).store

InitService ==
    /\ resp = NoResponse
    /\ image_store = StoredImage
    /\ idle = Conns
    /\ inflight = [task \in Tasks |-> None]
    /\ scan = NoScan
    /\ ads = <<Ad(1, <<"A", "b">>, <<"D">>, 2, "active", "e1", "p1", 1, 2, FALSE,
                  to_value(<<"i1">>))>>
    /\ ads_id_seq = 2
    /\ sessions = [conn \in Conns |-> EmptyMap]
    /\ ret = [op |-> "none", kind |-> "Ok"]
    /\ hist = EmptyMap
    /\ returned = {}
    /\ made = [id \in Ids(ads) |-> [times |-> 1, kept |-> None]]

NextService ==
    \/ /\ CursorCount < MaxCursors
       /\ Repo(new_cursor(NoFilter))
    \/ \E name \in CursorNames : Repo(fetch_from_cursor(name, 1))
    \/ \E ad \in UpdateAds : Repo(update(1, ad))
    \/ Repo(delete(1))
    \/ get_ads(None)
    \/ get_ad(<<"1">>)
    \/ /\ Len(ads) < MaxPosts
       /\ create_ad(ServiceRequest)
    \/ \E id \in {<<"1">>, <<"a">>} : update_ad(id, StubRequest)
    \/ \E id \in {<<"1">>, <<"a">>} : delete_ad(id)

SpecService == InitService /\ [][NextService]_vars

----------------------------------------------------------------------------
(* Calls in flight.  A repository call is a function without an await inside:
   it takes a connection from the pool with get(), runs its one statement on
   it, and the guard is dropped when the function returns, on Ok and on Err.
   Callers run on the threads of the runtime, so calls overlap: between get()
   and the return the connection is out of the pool. *)

PendingCall(op, name) == [op |-> op, name |-> name]

Calls ==
    {PendingCall(op, "") : op \in {"new_cursor", "get_by_id", "get_page", "create",
                                   "update", "delete"}}
      \cup {PendingCall("fetch_from_cursor", name) : name \in CursorNames}

(* The call with the arguments it is made with here. *)
Run(call) ==
    \/ call.op = "new_cursor" /\ new_cursor(NoFilter)
    \/ call.op = "fetch_from_cursor" /\ fetch_from_cursor(call.name, 1)
    \/ call.op = "get_by_id" /\ get_by_id(1)
    \/ call.op = "get_page" /\ get_page(0, 1, NoFilter)
    \/ call.op = "create" /\ Len(ads) < MaxPosts /\ create(ServiceRequest.content, <<>>)
    \/ call.op = "update" /\ \E ad \in UpdateAds : update(1, ad)
    \/ call.op = "delete" /\ delete(1)

(* The statement of the call ran on the connection conn. *)
RanOn(conn, call) ==
    /\ ret'.kind # "PoolError"
    /\ call.op \in {"new_cursor", "fetch_from_cursor"} /\ ret'.kind = "Ok"
          => ret'.conn = conn
    /\ call.op = "new_cursor" /\ ret'.kind = "Err"
          => \E name \in CursorNames :
                ~DeclareOk(sessions[conn], name, DebugQuerySql(BoxedQuery(NoFilter)),
                           CursorBinds(NoFilter))
    /\ call.op = "fetch_from_cursor" /\ ret'.kind = "Err"
          => call.name \notin DOMAIN sessions[conn]

(* A guard that is dropped without giving its connection back. *)
Forget(pool, conn) == pool

(* Drop of the PooledConnection: the connection is idle again. *)
Release(pool, conn) == pool \cup {conn}

(* get() lends an idle connection to the caller. *)
Borrow(task, call) ==
    /\ inflight[task] = None
    /\ call.op = "new_cursor" =>
          /\ CursorCount = 0
          /\ \A other \in Tasks :
                IF inflight[other] = None THEN TRUE
                ELSE Unwrap(inflight[other]).call # call
    /\ call.op = "create" => Len(ads) < MaxPosts
    /\ \E conn \in idle :
         /\ idle' = idle \ {conn}
         /\ inflight' = [inflight EXCEPT ![task] = Some([call |-> call, conn |-> conn])]
    /\ UNCHANGED <<repo_vars, resp, image_store, scan>>

(* get() fails, on an empty pool after the wait or on a connection that cannot
   be set up: the call returns the error, its statement never sent. *)
Refused(task, call) ==
    /\ inflight[task] = None
    /\ Run(call)
    /\ ret'.kind = "PoolError"
    /\ resp' = NoResponse
    /\ UNCHANGED <<idle, inflight, image_store, scan>>

(* The statement runs on the borrowed connection and the call returns. *)
Return(task) ==
    /\ inflight[task] # None
    /\ LET held == Unwrap(inflight[task])
       IN  /\ Run(held.call)
           /\ RanOn(held.conn, held.call)
           /\ idle' = Release(idle, held.conn)
           /\ inflight' = [inflight EXCEPT ![task] = None]
    /\ resp' = NoResponse
    /\ UNCHANGED <<image_store, scan>>

NextPool ==
    \/ \E task \in Tasks, call \in Calls : Borrow(task, call)
    \/ \E task \in Tasks, call \in Calls : Refused(task, call)
    \/ \E task \in Tasks : Return(task)

SpecPool == InitService /\ [][NextPool]_vars

----------------------------------------------------------------------------
(* A caller listing the table page by page: get_page at offset 0, then at the
   next offset, until a page comes back short.  scan records what that caller
   has seen: the ids returned so far (seen) and returned more than once
   (again), the ids of the rows that have been in the table since the first
   page (alive), whether the table has stayed as it was (stable), and, from the
   listings that have ended, the rows alive to the end that were returned twice
   and never. *)

PageIds(rows) == {rows[i].id : i \in 1..Len(rows)}

(* The record after a page was returned. *)
Turn(s, r, table) ==
    LET from == IF r.offset = 0
                THEN [NoScan EXCEPT !.alive = Ids(table), !.twice = s.twice,
                                    !.never = s.never]
                ELSE s
        ids == PageIds(r.rows)
        seen == from.seen \cup ids
        again == from.again \cup (from.seen \cap ids)
        short == Len(r.rows) < r.per_page
    IN  [from EXCEPT !.state = IF short THEN "done" ELSE "open",
                     !.next = r.offset + r.per_page,
                     !.seen = seen,
                     !.again = again,
                     !.twice = IF short THEN @ \cup (again \cap from.alive) ELSE @,
                     !.never = IF short THEN @ \cup (from.alive \ seen) ELSE @]

(* The record after another call ran while the listing is under way. *)
Meanwhile(s, before, after) ==
    IF s.state # "open" THEN s
    ELSE [s EXCEPT !.alive = @ \cap Ids(after), !.stable = @ /\ after = before]

(* The next page of the listing, or the first page of a new one. *)
Listing(offset, per_page) ==
    /\ get_page(offset, per_page, NoFilter)
    /\ scan' = IF ret'.kind = "Ok" THEN Turn(scan, ret', ads) ELSE scan
    /\ resp' = NoResponse
    /\ UNCHANGED <<image_store, idle, inflight>>

(* Another call of the repository while the listing is under way. *)
During(A) ==
    /\ A
    /\ scan' = Meanwhile(scan, ads, ads')
    /\ resp' = NoResponse
    /\ UNCHANGED <<image_store, idle, inflight>>

NextScan ==
    \/ \E offset \in {0} \cup {scan.next} :
         /\ offset = 0 \/ scan.state = "open"
         /\ Listing(offset, 1)
    \/ During(create(ServiceRequest.content, <<>>))
    \/ \E id \in IdArgs : During(delete(id))
    \/ /\ CursorCount = 0
       /\ During(new_cursor(NoFilter))
    \/ \E name \in CursorNames : During(fetch_from_cursor(name, 1))

SpecScan == InitCursor /\ [][NextScan]_vars

----------------------------------------------------------------------------
(* The image repository called directly: create_image, get_image and
   delete_image on the files of the image directory as they are. *)

Image(id, file_name, mime_type, bytes) ==
    [id |-> id, file_name |-> file_name, mime_type |-> mime_type, bytes |-> bytes]

(* tokio::fs::remove_file: the file is gone, or the call fails and the file, if
   there was one, stays. *)
Remove(store, path) ==
    IF path \notin DOMAIN store THEN {[ok |-> FALSE, store |-> store]}
    ELSE {[ok |-> TRUE, store |-> [q \in DOMAIN store \ {path} |-> store[q]]],
          [ok |-> FALSE, store |-> store]}

(* get_image: the content file read whole as it is, then the metadata file
   read and parsed; a missing file and metadata that is not the JSON of an
   ImageMetadataFile end the call with an error. *)
get_image(store, id) ==
    IF ContentPath(id) \notin DOMAIN store THEN None
    ELSE IF MetaPath(id) \notin DOMAIN store THEN None
    ELSE IF ~store[MetaPath(id)].whole THEN None
    ELSE Some(Image(Some(id), store[MetaPath(id)].data.file_name,
                    store[MetaPath(id)].data.mime_type, store[ContentPath(id)].data))

(* delete_image: the content file removed, then the metadata file; the first
   failing removal ends the call with an error. *)
delete_image(store, id) ==
    UNION {
      IF ~first.ok
      THEN {[ok |-> FALSE, store |-> first.store]}
      ELSE {[ok |-> second.ok, store |-> second.store] :
              second \in Remove(first.store, MetaPath(id))}
      : first \in Remove(store, ContentPath(id))}

(* A call of the image repository: the directory after it and what it
   returned; nothing else of the service is touched. *)
ImageCall(store, result) ==
    /\ image_store' = store
    /\ ret' = result
    /\ resp' = NoResponse
    /\ UNCHANGED <<ads, ads_id_seq, sessions, hist, returned, made, idle, inflight, scan>>

CreateImage(file_name, bytes, mime_type) ==
    \E made_image \in create_image(image_store, file_name, bytes, mime_type) :
       ImageCall(made_image.store,
                 [op |-> "create_image", file_name |-> file_name, bytes |-> bytes,
                  mime_type |-> mime_type,
                  kind |-> IF made_image.id = None THEN "Err" ELSE "Ok",
                  id |-> made_image.id])

GetImage(id) ==
    ImageCall(image_store,
              [op |-> "get_image", id |-> id,
               kind |-> IF get_image(image_store, id) = None THEN "Err" ELSE "Ok",
               image |-> get_image(image_store, id)])

DeleteImage(id) ==
    \E deleted \in delete_image(image_store, id) :
       ImageCall(deleted.store,
                 [op |-> "delete_image", id |-> id,
                  kind |-> IF deleted.ok THEN "Ok" ELSE "Err"])

Uploads ==
    {<<"f.png", <<1, 2>>, "image/png">>, <<"g.gif", <<3>>, "image/gif">>}

NextImages ==
    \/ \E upload \in Uploads : CreateImage(upload[1], upload[2], upload[3])
    \/ \E id \in ImageIds \cup {"i0"} : GetImage(id)
    \/ \E id \in ImageIds \cup {"i0"} : DeleteImage(id)

SpecImages == Init /\ [][NextImages]_vars

----------------------------------------------------------------------------
(* Claims about the writes and the lookup by id, under Spec. *)

(* C6: for an id present in the table delete(id) returns 1 and removes exactly
   that row, every other row staying as it was; for an id not present (deleted
   before, or never there) it returns 0 without error and the table stays as
   it was. *)
C6_DeleteCountsAndFrame ==
    [][(ret' # ret /\ ret'.op = "delete" /\ ret'.kind # "PoolError") =>
          /\ ret'.kind = "Ok"
          /\ Ids(ads') = Ids(ads) \ {ret'.id}
          /\ \A j \in Ids(ads') : RowOf(ads', j) = RowOf(ads, j)
          /\ IF ret'.id \in Ids(ads)
             THEN ret'.count = 1 /\ Len(ads') = Len(ads) - 1
             ELSE ret'.count = 0 /\ ads' = ads]_vars

(* A delete of an id that a create returned and a delete removed: the second
   delete, returning 0, while another row is in the table. *)
C6_Witness ==
    /\ ret.op = "delete" /\ ret.kind = "Ok" /\ ret.count = 0
    /\ ret.id \in DOMAIN made /\ ret.id \notin Ids(ads)
    /\ ads # <<>>

(* C7: get_by_id(x) of an id create returned, with no update or delete of x in
   between, returns the record with the created content's title, description,
   price, user_email, user_phone and top_ad and with exactly the image ids
   given, in their order; no id is returned by two creates. *)
C7_CreateGetRoundTrip ==
    /\ \A id \in DOMAIN made : made[id].times = 1
    /\ (ret.op = "get_by_id" /\ ret.kind = "Ok" /\ ret.id \in DOMAIN made
            /\ made[ret.id].kept # None) =>
          /\ ret.ad # None
          /\ LET got == Unwrap(ret.ad)
                 was == Unwrap(made[ret.id].kept)
             IN  /\ got.id = ret.id
                 /\ got.title = was.content.title
                 /\ got.description = was.content.description
                 /\ was.content.price.finite /\ got.price = was.content.price.val
                 /\ got.user_email = was.content.user_email
                 /\ got.user_phone = was.content.user_phone
                 /\ got.top_ad = was.content.top_ad
                 /\ from_value(got.images) = was.image_ids

(* A lookup of a created ad that holds two image ids, after an earlier row was
   deleted. *)
C7_Witness ==
    /\ ret.op = "get_by_id" /\ ret.kind = "Ok" /\ ret.id \in DOMAIN made
    /\ made[ret.id].kept # None
    /\ Len(Unwrap(made[ret.id].kept).image_ids) = 2
    /\ \E id \in DOMAIN made : id \notin Ids(ads)

(* C8: every row create inserts has status "active" and created_at equal to
   updated_at, and the Ad returned is the inserted row. *)
C8_CreateStampsEqual ==
    (ret.op = "create" /\ ret.kind = "Ok") =>
        /\ ret.ad.status = "active"
        /\ ret.ad.created_at = ret.ad.updated_at
        /\ ret.ad.id \in Ids(ads) /\ RowOf(ads, ret.ad.id) = ret.ad

----------------------------------------------------------------------------
(* Claims about the reads of a stored table, under SpecPage and SpecDrain. *)

IdsOf(rows) == {rows[i].id : i \in 1..Len(rows)}

RowsOf(rows) == {rows[i] : i \in 1..Len(rows)}

(* get_page(0, per_page >= table size, filter), as get_page computes it. *)
WholePage(filter, table) ==
    OffsetLimit(LoadBoxed(BoxedQuery(filter), table), 0, Len(table))

Exhausted(key) ==
    LET portal == sessions[key[1]][key[2]] IN portal.pos = Len(portal.rows) + 1

(* C4: with no write in between, draining a cursor created with
   new_cursor(filter) returns the ids get_page(0, per_page >= table size,
   filter) returns, for every combination of present and absent filter
   fields; the declaration's bound values fit its placeholders, so creating
   the first cursor of a session never fails in the store. *)
C4_CursorAgreesWithPage ==
    /\ \A key \in DOMAIN hist :
          Exhausted(key) =>
              IdsOf(hist[key].delivered) = IdsOf(WholePage(hist[key].filter, ads))
    /\ ret.op = "new_cursor" => ret.kind # "Err"

(* A drained cursor whose filter has all six fields present, over a table of
   two rows one of which it delivered. *)
C4_Witness ==
    \E key \in DOMAIN hist :
        /\ Exhausted(key)
        /\ \A field \in DOMAIN hist[key].filter : hist[key].filter[field] # None
        /\ Len(hist[key].delivered) = 1
        /\ Len(ads) = 2

(* What the filter's words say of one row: the terms occur in the title and
   the description without regard to case, the four bounds are strict, an
   absent field excludes nothing. *)
Satisfies(row, filter) ==
    /\ \A term \in filter.title_contains : Contains(row.title, term)
    /\ \A term \in filter.description_contains : Contains(row.description, term)
    /\ \A bound \in filter.price_lt : row.price < bound
    /\ \A bound \in filter.price_gt : row.price > bound
    /\ \A bound \in filter.updated_at_lt : row.updated_at < bound
    /\ \A bound \in filter.updated_at_gt : row.updated_at > bound

(* C5: get_page(0, per_page >= table size, filter) returns a row if and only
   if the row satisfies every present filter field. *)
C5_PageIsExactlyTheSatisfyingRows ==
    (ret.op = "get_page" /\ ret.kind = "Ok" /\ ret.offset = 0
        /\ ret.per_page >= Len(ads)) =>
        RowsOf(ret.rows) = {row \in RowsOf(ads) : Satisfies(row, ret.filter)}

(* The rows of the table the query's WHERE clause lets through. *)
Matching(filter) == LoadBoxed(BoxedQuery(filter), ads)

(* C10: get_page(offset, per_page, filter) returns the empty list and no error
   when per_page = 0 or offset >= the number of matching rows; otherwise it
   returns exactly min(per_page, matching - offset) rows, at most per_page,
   each a different matching row. *)
C10_PageSize ==
    (ret.op = "get_page" /\ ret.kind # "PoolError") =>
        /\ ret.kind = "Ok"
        /\ LET matching == Len(Matching(ret.filter))
           IN  IF ret.per_page = 0 \/ ret.offset >= matching
               THEN ret.rows = <<>>
               ELSE /\ Len(ret.rows) = Min(ret.per_page, matching - ret.offset)
                    /\ Len(ret.rows) <= ret.per_page
                    /\ RowsOf(ret.rows) \subseteq RowsOf(Matching(ret.filter))
                    /\ Cardinality(IdsOf(ret.rows)) = Len(ret.rows)

(* A page cut short by the end of the matching rows: offset 1, room for two
   rows, one row returned, under a filter that excludes a row of the table. *)
C10_Witness ==
    /\ ret.op = "get_page" /\ ret.kind = "Ok"
    /\ ret.offset = 1 /\ ret.per_page = 2 /\ Len(ret.rows) = 1
    /\ ret.filter # NoFilter

----------------------------------------------------------------------------
(* Claims about cursors read while the table is written, under SpecCursor. *)

IsPrefix(s, t) == Len(s) <= Len(t) /\ s = SubSeq(t, 1, Len(s))

NoRepeat(rows) == \A i, j \in 1..Len(rows) : rows[i] = rows[j] => i = j

FetchAnswered == ret.op = "fetch_from_cursor" /\ ret.kind # "PoolError"

(* The cursors declared under the name, on whichever session. *)
KeysOf(name) == {key \in DOMAIN hist : key[2] = name}

(* C1: after new_cursor succeeds over a table with N matching rows, the
   successful fetch_from_cursor(name, k) calls with 1 <= k <= 255 each return
   at most k rows, never return a row twice and together return exactly the N
   rows matched at declaration; once those rows are exhausted every further
   fetch returns an empty list and not an error. *)
C1_FetchesDeliverTheDeclaredRows ==
    /\ [](/\ (FetchAnswered /\ ret.kind = "Ok" /\ ret.count >= 1) =>
                 Len(ret.rows) <= ret.count
          /\ \A key \in DOMAIN hist :
                 /\ NoRepeat(hist[key].delivered)
                 /\ IsPrefix(hist[key].delivered, hist[key].rows)
                 /\ Exhausted(key) => hist[key].delivered = hist[key].rows)
    /\ [][(/\ ret'.op = "fetch_from_cursor" /\ ret'.kind # "PoolError"
           /\ ret'.count >= 1
           /\ \E key \in KeysOf(ret'.name) : hist[key].delivered = hist[key].rows) =>
              /\ ret'.kind = "Ok"
              /\ ret'.rows = <<>>]_vars

(* C2: fetch_from_cursor(name, count) returns an error exactly when no
   successful new_cursor call has returned name; for a name new_cursor
   returned, the fetch succeeds whichever connection of the pool the declaring
   call and the fetching call borrow. *)
C2_ErrorOnlyForUnknownName ==
    FetchAnswered => (ret.kind = "Err" <=> ret.name \notin returned)

(* C3: the sequence of rows a cursor delivers is fixed when new_cursor
   returns: a create, update or delete executed after new_cursor and before or
   between fetches changes neither which rows the cursor delivers, nor their
   order, nor their column values. *)
C3_DeliveredRowsFixedAtDeclaration ==
    /\ \A key \in DOMAIN hist : IsPrefix(hist[key].delivered, hist[key].rows)
    /\ (FetchAnswered /\ ret.kind = "Ok") =>
           LET key == <<ret.conn, ret.name>>
               delivered == hist[key].delivered
           IN  /\ RowsOf(ret.rows) \subseteq RowsOf(hist[key].rows)
               /\ ret.count >= 1 =>
                      /\ Len(ret.rows) <= Len(delivered)
                      /\ ret.rows = SubSeq(delivered,
                                           Len(delivered) - Len(ret.rows) + 1,
                                           Len(delivered))

(* A fetch delivers a row that the table, written since the declaration, no
   longer holds as delivered, while the table holds a row created since. *)
C3_Witness ==
    /\ FetchAnswered /\ ret.kind = "Ok" /\ ret.count >= 1
    /\ \E i \in 1..Len(ret.rows) : ret.rows[i] \notin RowsOf(ads)
    /\ \E id \in Ids(ads) : made[id].kept # None

(* C9: fetch_from_cursor(name, 0) on an existing cursor returns an empty list
   without error at every cursor position (before the first row, after some
   rows were fetched, after the last row) and does not change which rows later
   fetches return. *)
C9_FetchZeroIsEmpty ==
    /\ (FetchAnswered /\ ret.count = 0 /\ ret.kind = "Ok") => ret.rows = <<>>
    /\ \A key \in DOMAIN hist : IsPrefix(hist[key].delivered, hist[key].rows)

----------------------------------------------------------------------------
(* Claims about update and the row ids, under Spec. *)

(* C12: update(id, ad) on an existing id sets every non-key column of that row
   to the value in ad, keeps the row's id equal to id even when ad.id differs,
   changes no other row and returns the updated row; on an id that does not
   exist it returns an error and leaves the table unchanged.  Across create,
   update and delete no existing row's id changes: ids stay distinct, only a
   delete takes an id away and only a create brings one. *)
C12_UpdateReplacesRowKeepsId ==
    [][/\ (ret'.op = "update" /\ ret'.kind # "PoolError") =>
              IF ret'.id \in Ids(ads)
              THEN /\ ret'.kind = "Ok"
                   /\ Ids(ads') = Ids(ads) /\ Len(ads') = Len(ads)
                   /\ RowOf(ads', ret'.id) = [ret'.arg EXCEPT !.id = ret'.id]
                   /\ ret'.ad = RowOf(ads', ret'.id)
                   /\ \A j \in Ids(ads) \ {ret'.id} : RowOf(ads', j) = RowOf(ads, j)
              ELSE ret'.kind = "Err" /\ ads' = ads
       /\ Cardinality(Ids(ads')) = Len(ads')
       /\ ret'.op # "delete" => Ids(ads) \subseteq Ids(ads')
       /\ ret'.op # "create" => Ids(ads') \subseteq Ids(ads)]_vars

(* An update whose argument carries another id than the one updated, applied
   while a second row is in the table. *)
C12_Witness ==
    /\ ret.op = "update" /\ ret.kind = "Ok"
    /\ ret.arg.id # ret.id /\ ret.ad.id = ret.id
    /\ Len(ads) = 2

----------------------------------------------------------------------------
(* Claims about text search, under SpecSearch. *)

LiteralIds(filter) == {row.id : row \in {r \in RowsOf(ads) : Satisfies(r, filter)}}

(* C20: for every search term, terms holding % or _ included, title_contains
   (and likewise description_contains) selects a row if and only if the term
   occurs in the title (description) as a literal substring compared
   case-insensitively, identically in get_page and in new_cursor. *)
C20_TermIsLiteralSubstring ==
    /\ (ret.op = "get_page" /\ ret.kind = "Ok") =>
           IdsOf(ret.rows) = LiteralIds(ret.filter)
    /\ \A key \in DOMAIN hist :
           /\ IdsOf(hist[key].rows) = LiteralIds(hist[key].filter)
           /\ IdsOf(hist[key].rows) = IdsOf(WholePage(hist[key].filter, ads))

----------------------------------------------------------------------------
(* Claims about cursor names, under SpecNames. *)

(* C16: no two successful new_cursor calls, on any pooled connections, return
   the same cursor name while the cursor of the earlier call still exists, so
   a fetch never reads or advances a cursor declared by another new_cursor
   call than the one that returned the name. *)
C16_NamesAreDistinct ==
    /\ \A key1, key2 \in DOMAIN hist : key1[2] = key2[2] => key1 = key2
    /\ (FetchAnswered /\ ret.kind = "Ok") => KeysOf(ret.name) = {<<ret.conn, ret.name>>}

----------------------------------------------------------------------------
(* Claims about the HTTP handlers, under SpecHttp. *)

(* per_page and offset of a GET /ads request, 10 and 0 where absent. *)
AskedPerPage(payload) ==
    IF payload = None \/ Unwrap(payload).per_page = None THEN U32Of(10)
    ELSE Unwrap(Unwrap(payload).per_page)

AskedOffset(payload) ==
    IF payload = None \/ Unwrap(payload).offset = None THEN U32Of(0)
    ELSE Unwrap(Unwrap(payload).offset)

AskedFilter(payload) ==
    IF payload = None \/ Unwrap(payload).filters = None THEN NoFilter
    ELSE Unwrap(Unwrap(payload).filters)

(* C11: every GET /ads request, with any offset and per_page in the u32 range
   (offset 0 and per_page 10 when absent), completes with status 500 or with a
   response whose items are the result of get_page(offset, per_page, filters)
   and whose page is floor(offset / per_page) + 1; the handler never aborts
   and the page never wraps. *)
C11_GetAdsCompletes ==
    resp.handler = "get_ads" =>
        /\ resp.kind = "response"
        /\ \/ resp.status = 500
           \/ /\ resp.status = 200
              /\ ret.op = "get_page" /\ ret.kind = "Ok"
              /\ ret.filter = AskedFilter(resp.request)
              /\ resp.body.value.items = ret.rows
              /\ AskedPerPage(resp.request) # U32Of(0)
              /\ Some(resp.body.value.page) =
                     U32Succ(U32Div(AskedOffset(resp.request),
                                    AskedPerPage(resp.request)))

----------------------------------------------------------------------------
(* The decimal notation of a 32-bit signed integer, stated on the characters:
   an optional sign, one digit or more, and, leading zeros apart, at most ten
   digits that do not exceed 2147483647 (2147483648 after a minus sign). *)
Unsigned(s) == IF s # <<>> /\ Head(s) \in {"+", "-"} THEN Tail(s) ELSE s

RECURSIVE StripZeros(_)
StripZeros(s) ==
    IF Len(s) > 1 /\ Head(s) = "0" THEN StripZeros(Tail(s)) ELSE s

RECURSIVE DigitsLeq(_, _)
DigitsLeq(a, b) ==
    IF a = <<>> THEN TRUE
    ELSE IF Head(a) = Head(b) THEN DigitsLeq(Tail(a), Tail(b))
    ELSE DigitValue(Head(a)) < DigitValue(Head(b))

ParsesAsI32(s) ==
    LET digits == StripZeros(Unsigned(s))
        limit == IF s # <<>> /\ Head(s) = "-"
                 THEN <<"2", "1", "4", "7", "4", "8", "3", "6", "4", "8">>
                 ELSE <<"2", "1", "4", "7", "4", "8", "3", "6", "4", "7">>
    IN  /\ digits # <<>>
        /\ \A k \in 1..Len(digits) : IsDigit(digits[k])
        /\ \/ Len(digits) < 10
           \/ Len(digits) = 10 /\ DigitsLeq(digits, limit)

(* The segment s denotes the id n of a row (ids of rows are positive). *)
Denotes(s, n) ==
    /\ s # <<>> /\ Head(s) # "-"
    /\ StripZeros(Unsigned(s)) = to_string(n)

(* C13: GET /ads/:id answers 400 when the path segment does not parse as a
   32-bit signed integer, and then storage is not queried; when it parses,
   get_by_id is called and either faults, answered with 500, or returns Ok:
   Ok(None) and 404 when no row has that id, the row and 200 with the row as
   JSON when a row has that id. *)
C13_GetAdAnswers ==
    [][resp'.handler = "get_ad" =>
         LET s == resp'.request
             found == {k \in 1..Len(ads) : Denotes(s, ads[k].id)}
         IN  /\ resp'.kind = "response"
             /\ IF ~ParsesAsI32(s)
                THEN resp'.status = 400 /\ UNCHANGED repo_vars
                ELSE /\ ret'.op = "get_by_id"
                     /\ ret'.kind \in {"Ok", "PoolError"}
                     /\ ret'.kind = "PoolError" => resp'.status = 500
                     /\ ret'.kind = "Ok" /\ found = {} =>
                            /\ ret'.ad = None
                            /\ resp'.status = 404
                     /\ \A k \in found : ret'.kind = "Ok" =>
                            /\ ret'.ad = Some(ads[k])
                            /\ resp'.status = 200
                            /\ resp'.body = Json(ads[k])
                     /\ ads' = ads]_vars

(* GET /ads/01 answered with the stored row 1. *)
C13_Witness ==
    /\ resp.handler = "get_ad"
    /\ resp.request = <<"0", "1">>
    /\ resp.kind = "response" /\ resp.status = 200
    /\ \E k \in 1..Len(ads) : ads[k].id = 1 /\ resp.body = Json(ads[k])

----------------------------------------------------------------------------
(* The image ids the rows of a table refer to, and the ids with files. *)
ReferencedIds(table) ==
    UNION {{table[k].images.elems[i].str : i \in DOMAIN table[k].images.elems} :
             k \in 1..Len(table)}

StoredIds(store) == {path[1] : path \in DOMAIN store}

Succeeded(r) == r.kind = "response" /\ r.status = 200

LacksMetadata(part) == part.file_name = None \/ part.content_type = None

(* The image part is stored whole under id: content and metadata. *)
StoredWhole(store, id, part) ==
    /\ ContentPath(id) \in DOMAIN store
    /\ store[ContentPath(id)] = [data |-> part.contents, whole |-> TRUE]
    /\ MetaPath(id) \in DOMAIN store
    /\ store[MetaPath(id)].whole
    /\ store[MetaPath(id)].data.file_name = Unwrap(part.file_name)
    /\ store[MetaPath(id)].data.mime_type = Unwrap(part.content_type)

(* C18: a POST /ads that does not report success inserts no row, and the
   files it wrote stay in the image store under ids no ad refers to; a request
   with an image part lacking file name or content type never reports success;
   when it is the row insert that failed, every image of the request is stored;
   a request that reports success inserted one row that lists one stored image
   per part of the request, in order, none skipped.  No request removes or
   rewrites a file. *)
C18_FailedPostLeavesOrphans ==
    [][resp'.handler = "create_ad" =>
         LET req == resp'.request
             written == StoredIds(image_store') \ StoredIds(image_store)
         IN  /\ \A path \in DOMAIN image_store :
                   path \in DOMAIN image_store' /\ image_store'[path] = image_store[path]
             /\ (\E k \in 1..Len(req.images) : LacksMetadata(req.images[k]))
                   => ~Succeeded(resp')
             /\ ~Succeeded(resp') =>
                   /\ ads' = ads
                   /\ written \cap ReferencedIds(ads') = {}
                   /\ ret'.op = "create" /\ ret' # ret =>
                         /\ Cardinality(written) = Len(req.images)
                         /\ \A k \in 1..Len(req.images) : \E id \in written :
                               StoredWhole(image_store', id, req.images[k])
             /\ Succeeded(resp') =>
                   /\ ret'.op = "create" /\ ret'.kind = "Ok"
                   /\ ads' # ads /\ Len(ads') = Len(ads) + 1
                   /\ resp'.body = Text(to_string(ret'.ad.id))
                   /\ \E k \in 1..Len(ads') : ads'[k] = ret'.ad
                   /\ Len(ret'.image_ids) = Len(req.images)
                   /\ ret'.ad.images = to_value(ret'.image_ids)
                   /\ written = {ret'.image_ids[k] : k \in 1..Len(req.images)}
                   /\ Cardinality(written) = Len(req.images)
                   /\ \A k \in 1..Len(req.images) :
                         StoredWhole(image_store', ret'.image_ids[k], req.images[k])]_vars

(* A POST /ads with two images answered 500 after the first image was stored
   whole: no row, and the image is referenced by no ad. *)
C18_Witness ==
    /\ resp.handler = "create_ad"
    /\ resp.kind = "response" /\ resp.status = 500
    /\ Len(resp.request.images) = 2
    /\ ads = <<>>
    /\ \E id \in StoredIds(image_store) :
          /\ StoredWhole(image_store, id, resp.request.images[1])
          /\ id \notin ReferencedIds(ads)

----------------------------------------------------------------------------
(* C14: PUT /ads/:id and DELETE /ads/:id answer with a success status and leave
   the ads table, the cursors of every session and the image store as they
   were, whether or not a row has the id; the get_by_id that follows a DELETE
   of a row's id still returns that row. *)
C14_StubsChangeNothing ==
    [][/\ resp'.handler \in {"update_ad", "delete_ad"} =>
            /\ resp'.kind = "response"
            /\ resp'.status = IF resp'.handler = "update_ad" THEN 200 ELSE 204
            /\ ads' = ads
            /\ ads_id_seq' = ads_id_seq
            /\ sessions' = sessions
            /\ image_store' = image_store
       /\ /\ resp.handler = "delete_ad"
          /\ ret'.op = "get_by_id" /\ ret'.kind = "Ok"
          /\ Denotes(resp.request, ret'.id)
          /\ resp'.handler = "get_ad"
          => \A k \in 1..Len(ads) :
                ads[k].id = ret'.id => ret'.ad = Some(ads[k]) /\ resp'.status = 200]_vars

(* DELETE /ads/1 answered 204 while row 1 is stored with its image and a cursor
   is declared. *)
C14_Witness ==
    /\ resp.handler = "delete_ad"
    /\ resp.kind = "response" /\ resp.status = 204
    /\ \E k \in 1..Len(ads) : Denotes(resp.request, ads[k].id)
    /\ \E conn \in Conns : sessions[conn] # EmptyMap
    /\ image_store # EmptyMap

(* The number of cursors declared, over all sessions. *)
RECURSIVE DeclaredOn(_)
DeclaredOn(conns) ==
    IF conns = {} THEN 0
    ELSE LET conn == CHOOSE c \in conns : TRUE
         IN  Cardinality(DOMAIN sessions[conn]) + DeclaredOn(conns \ {conn})

Declared == DeclaredOn(Conns)

(* C17: no step of the program, repository call or HTTP request, closes a
   cursor: every cursor declared on a session before the step is declared on
   it after, a fetch at or past the last row included; the number of declared
   cursors grows by one in a step in which new_cursor returns Ok, naming a
   cursor that is then declared, and is unchanged in every other step. *)
C17_CursorsAreNeverClosed ==
    [][LET declares == ret'.op = "new_cursor" /\ ret'.kind = "Ok" /\ ret' # ret
       IN  /\ \A conn \in Conns : DOMAIN sessions[conn] \subseteq DOMAIN sessions'[conn]
           /\ Declared' = Declared + (IF declares THEN 1 ELSE 0)
           /\ declares => /\ ret'.name \notin DOMAIN sessions[ret'.conn]
                          /\ ret'.name \in DOMAIN sessions'[ret'.conn]]_vars

(* Two cursors are declared, and a fetch from one that had delivered all its
   rows returned no row and left it declared. *)
C17_Witness ==
    /\ Declared = 2
    /\ ret.op = "fetch_from_cursor" /\ ret.kind = "Ok" /\ ret.rows = <<>>
    /\ ret.name \in DOMAIN sessions[ret.conn]
    /\ hist[<<ret.conn, ret.name>>].rows # <<>>
    /\ hist[<<ret.conn, ret.name>>].delivered = hist[<<ret.conn, ret.name>>].rows

----------------------------------------------------------------------------
InFlight == {task \in Tasks : inflight[task] # None}

HeldBy(task) == Unwrap(inflight[task]).conn

(* C15: a call holds one connection while it is in flight and none once it has
   returned, with Ok or with an error: the connections out of the pool are
   exactly those of the calls in flight, one each and no two the same, so with
   no call in flight every connection is idle; a step takes at most one
   connection out of the pool; a call that could not get a connection returns
   an error and leaves the table and the cursors as they were. *)
C15_ConnectionsComeBack ==
    /\ [](/\ \A task \in InFlight : HeldBy(task) \in Conns \ idle
          /\ \A t1 \in InFlight, t2 \in InFlight : t1 # t2 => HeldBy(t1) # HeldBy(t2)
          /\ Conns \ idle = {HeldBy(task) : task \in InFlight}
          /\ InFlight = {} => idle = Conns)
    /\ [][/\ Cardinality(idle \ idle') <= 1
          /\ \A task \in Tasks :
                inflight[task] # None /\ inflight'[task] = None =>
                   /\ HeldBy(task) \in idle'
                   /\ ret'.kind \in {"Ok", "Err"}
          /\ ret'.kind = "PoolError" /\ inflight' = inflight =>
                /\ ads' = ads /\ ads_id_seq' = ads_id_seq
                /\ sessions' = sessions
                /\ idle' = idle]_vars

(* A fetch returned an error, the cursor being on the other session, and with
   no call in flight the whole pool is idle. *)
C15_Witness ==
    /\ ret.op = "fetch_from_cursor" /\ ret.kind = "Err"
    /\ CursorCount = 1
    /\ InFlight = {}
    /\ idle = Conns

----------------------------------------------------------------------------
(* C19: a cursor, whatever is written between its fetches, delivers the rows
   held at its declaration in order, none twice, and all of them once it is
   exhausted; a listing by get_page at offsets 0, per_page, 2*per_page, ...
   returns every row once only as long as the table stays as it was: with a
   create or a delete between two pages a row that was in the table from the
   first page to the last can come back on two pages or on none (the witness). *)
C19_PagesShiftCursorsDoNot ==
    /\ \A key \in DOMAIN hist :
          /\ NoRepeat(hist[key].delivered)
          /\ IsPrefix(hist[key].delivered, hist[key].rows)
          /\ Exhausted(key) => hist[key].delivered = hist[key].rows
    /\ scan.stable => scan.again = {}
    /\ scan.stable /\ scan.state = "done" => scan.seen = scan.alive

(* Listings have ended in which a row that was in the table throughout came
   back on two pages, and one on no page, while a cursor declared before a
   delete has delivered each of its rows once, the deleted row included. *)
C19_Witness ==
    /\ scan.state = "done"
    /\ scan.twice # {}
    /\ scan.never # {}
    /\ \E key \in DOMAIN hist :
          /\ Exhausted(key)
          /\ hist[key].rows # <<>>
          /\ hist[key].delivered = hist[key].rows
          /\ ~(IdsOf(hist[key].rows) \subseteq Ids(ads))

----------------------------------------------------------------------------
(* An image id with one of its two files and not the other. *)
HalfStored(store, id) ==
    (ContentPath(id) \in DOMAIN store) # (MetaPath(id) \in DOMAIN store)

(* The step is a delete_image(id) that returned Ok. *)
DeletedNow(id) ==
    ret'.op = "delete_image" /\ ret'.kind = "Ok" /\ ret'.id = id /\ image_store' # image_store

(* A step of the round trip: create_image that returns an id stores what
   get_image(id) then returns, that id with the bytes, file name and mime type
   passed in; every call keeps what get_image(id) returns until a
   delete_image(id) returns Ok, after which get_image(id) fails; a get_image
   call returns what the files hold and changes none. *)
RoundTripStep ==
    /\ ret'.op = "create_image" /\ ret'.kind = "Ok" /\ image_store' # image_store =>
          /\ get_image(image_store, Unwrap(ret'.id)) = None
          /\ get_image(image_store', Unwrap(ret'.id)) =
                Some(Image(ret'.id, ret'.file_name, ret'.mime_type, ret'.bytes))
    /\ \A id \in ImageIds :
          /\ get_image(image_store, id) # None /\ ~DeletedNow(id) =>
                get_image(image_store', id) = get_image(image_store, id)
          /\ DeletedNow(id) => get_image(image_store', id) = None
    /\ ret'.op = "get_image" =>
          /\ image_store' = image_store
          /\ ret'.image = get_image(image_store, ret'.id)

(* C21: after every create_image and delete_image call, returned with Ok or
   with an error, each image id has both its content file and its .meta file or
   neither; an id returned by create_image yields from get_image the bytes, file
   name and mime type passed in until delete_image(id) succeeds, and get_image
   fails after that. *)
C21_BothFilesOrNeither ==
    /\ [](\A id \in ImageIds : ~HalfStored(image_store, id))
    /\ [][RoundTripStep]_vars

====
